---- MODULE Spec2Model ----
(***************************************************************************)
(* Model of translate.js: the flatten/unflatten utilities, the translate   *)
(* pipeline and the normalise pipeline.                                    *)
(*                                                                         *)
(* A JavaScript string is a sequence of one-character strings, so that     *)
(* startsWith, includes, split, slice and String.replace act on            *)
(* characters as they do in the source.  A JavaScript object is the        *)
(* sequence of its <<key, value>> entries in own-property enumeration      *)
(* order (array-index keys ascending first, then the other keys in         *)
(* insertion order).  A JSON tree node is a record [t, s, kv]: t = "str"   *)
(* is a text leaf with text s, t = "obj" a keyed mapping and t = "arr" a   *)
(* sequence, both with entries kv.                                         *)
(***************************************************************************)
EXTENDS Integers, Sequences, FiniteSets, TLC

----------------------------------------------------------------------------
(* Strings *)

Dot == <<".">>
Dollar == <<"$">>
Sep == <<"/">>

Digits == <<"0", "1", "2", "3", "4", "5", "6", "7", "8", "9">>

IsDigit(c) == \E d \in 1..Len(Digits) : Digits[d] = c

DigitVal(c) == (CHOOSE d \in 1..Len(Digits) : Digits[d] = c) - 1

StartsWith(s, p) == Len(p) <= Len(s) /\ SubSeq(s, 1, Len(p)) = p

EndsWith(s, p) == Len(p) <= Len(s) /\ SubSeq(s, Len(s) - Len(p) + 1, Len(s)) = p

\* String.prototype.indexOf, 1-based; 0 when p does not occur in s.
IndexOf(s, p) ==
  LET hits == {i \in 1..(Len(s) - Len(p) + 1) : SubSeq(s, i, i + Len(p) - 1) = p}
  IN  IF hits = {} THEN 0 ELSE CHOOSE i \in hits : \A j \in hits : i <= j

Includes(s, p) == IndexOf(s, p) # 0

\* String.prototype.replace with a string pattern: the FIRST occurrence only.
\* (The replacement patterns $$, $&, ... are not modelled: no replacement
\* text of the model holds a "$".)
ReplaceFirst(s, p, r) ==
  LET i == IndexOf(s, p)
  IN  IF i = 0 THEN s
      ELSE SubSeq(s, 1, i - 1) \o r \o SubSeq(s, i + Len(p), Len(s))

\* String.prototype.split on a one-character separator.
RECURSIVE Split(_, _)
Split(s, sep) ==
  LET i == IndexOf(s, sep)
  IN  IF i = 0 THEN <<s>>
      ELSE <<SubSeq(s, 1, i - 1)>> \o Split(SubSeq(s, i + 1, Len(s)), sep)

RECURSIVE Join(_, _)
Join(parts, sep) ==
  IF Len(parts) = 0 THEN <<>>
  ELSE IF Len(parts) = 1 THEN parts[1]
  ELSE parts[1] \o sep \o Join(Tail(parts), sep)

Reverse(q) == [i \in 1..Len(q) |-> q[Len(q) + 1 - i]]

RECURSIVE Trim(_)
Trim(s) ==
  IF Len(s) > 0 /\ s[1] = " " THEN Trim(Tail(s))
  ELSE IF Len(s) > 0 /\ s[Len(s)] = " " THEN Trim(SubSeq(s, 1, Len(s) - 1))
  ELSE s

\* The value of a run of digits.
RECURSIVE ToNumber(_)
ToNumber(s) ==
  IF Len(s) = 0 THEN 0
  ELSE 10 * ToNumber(SubSeq(s, 1, Len(s) - 1)) + DigitVal(s[Len(s)])

RECURSIVE LeadingDigits(_)
LeadingDigits(s) ==
  IF Len(s) > 0 /\ IsDigit(s[1]) THEN <<s[1]>> \o LeadingDigits(Tail(s)) ELSE <<>>

NaN == -1

\* parseInt(key): the number its leading digits spell, NaN when it has none.
\* (Leading blanks, a sign and the 0x prefix are not modelled: no key of the
\* model holds a blank, a sign or an "x".)
ParseInt(s) ==
  IF LeadingDigits(s) = <<>> THEN NaN ELSE ToNumber(LeadingDigits(s))

\* String(i) for a small index.
RECURSIVE IdxStr(_)
IdxStr(n) == IF n < 10 THEN <<Digits[n + 1]>> ELSE IdxStr(n \div 10) \o <<Digits[(n % 10) + 1]>>

\* A canonical array index: the keys an object enumerates first, ascending.
IsArrayIndex(k) ==
  /\ Len(k) > 0
  /\ \A i \in 1..Len(k) : IsDigit(k[i])
  /\ (Len(k) = 1 \/ k[1] # "0")

----------------------------------------------------------------------------
(* Objects: entries in enumeration order *)

ObjKeys(o) == [i \in 1..Len(o) |-> o[i][1]]

KeySet(o) == {o[i][1] : i \in 1..Len(o)}

ObjHas(o, k) == \E i \in 1..Len(o) : o[i][1] = k

ObjGet(o, k) == o[CHOOSE i \in 1..Len(o) : o[i][1] = k][2]

\* o[k] = v
ObjPut(o, k, v) ==
  IF ObjHas(o, k)
  THEN [i \in 1..Len(o) |-> IF o[i][1] = k THEN <<k, v>> ELSE o[i]]
  ELSE IF IsArrayIndex(k)
  THEN LET before == {i \in 1..Len(o) :
                         IsArrayIndex(o[i][1]) /\ ToNumber(o[i][1]) < ToNumber(k)}
           n == Cardinality(before)
       IN  SubSeq(o, 1, n) \o <<<<k, v>>>> \o SubSeq(o, n + 1, Len(o))
  ELSE Append(o, <<k, v>>)

\* delete o[k]
ObjDel(o, k) == SelectSeq(o, LAMBDA e : e[1] # k)

\* {...acc, ...o}
RECURSIVE Spread(_, _)
Spread(acc, o) ==
  IF Len(o) = 0 THEN acc ELSE Spread(ObjPut(acc, o[1][1], o[1][2]), Tail(o))

\* An object as a function of its keys (what two objects are compared by).
AsMap(o) == [k \in KeySet(o) |-> ObjGet(o, k)]

----------------------------------------------------------------------------
(* JSON trees *)

Leaf(s) == [t |-> "str", s |-> s, kv |-> <<>>]

Obj(kv) == [t |-> "obj", s |-> <<>>, kv |-> kv]

Arr(kv) == [t |-> "arr", s |-> <<>>, kv |-> kv]

\* typeof value === "object"
IsObject(n) == n.t # "str"

\* The truthiness of obj[key] for a present key: only "" is falsy.
Truthy(n) == n.t # "str" \/ Len(n.s) > 0

\* const currentPath = prefix.length ? prefix + "." : ""
CurrentPathDotless(prefix) == prefix

CurrentPath(prefix) == IF Len(prefix) > 0 THEN prefix \o Dot ELSE <<>>

RECURSIVE flattenObject(_, _)
flattenObject(obj, prefix) ==
  LET currentPath == CurrentPath(prefix)
      RECURSIVE reduce(_, _)
      reduce(acc, i) ==
        IF i > Len(obj.kv) THEN acc
        ELSE LET key == obj.kv[i][1]
                 value == obj.kv[i][2]
             IN  IF IsObject(value)
                 THEN reduce(Spread(acc, flattenObject(value, currentPath \o key)), i + 1)
                 ELSE reduce(ObjPut(acc, currentPath \o key, value.s), i + 1)
  IN  reduce(<<>>, 1)

isArrayLikeObject(obj) ==
  \A i \in 1..Len(obj.kv) : ParseInt(obj.kv[i][1]) = i - 1

\* convertArrayLikeObjects rewrites the CHILDREN of obj in place: an
\* array-like child becomes the array of its values, whose elements are then
\* visited (their own children rewritten, the elements themselves left as
\* they are); obj itself is never rewritten.
RECURSIVE convertArrayLikeObjects(_)
convertArrayLikeObjects(obj) ==
  [obj EXCEPT !.kv =
     [i \in 1..Len(obj.kv) |->
        LET key == obj.kv[i][1]
            value == obj.kv[i][2]
        IN  IF ~IsObject(value) THEN <<key, value>>
            ELSE IF isArrayLikeObject(value)
            THEN <<key, Arr([j \in 1..Len(value.kv) |->
                               <<IdxStr(j - 1), convertArrayLikeObjects(value.kv[j][2])>>])>>
            ELSE <<key, convertArrayLikeObjects(value)>>]]

\* The walk of one flat key (translate.js 57-69): creates the chain of
\* mappings and assigns the leaf.  A walk that meets a non-empty text leaf
\* continues on a primitive, where the assignment is dropped.
RECURSIVE SetPath(_, _, _)
SetPath(currentObj, keys, v) ==
  LET currentKey == Head(keys)
      has == ObjHas(currentObj.kv, currentKey)
      cur == IF has THEN ObjGet(currentObj.kv, currentKey) ELSE Obj(<<>>)
  IN  IF Len(keys) = 1
      THEN [currentObj EXCEPT !.kv = ObjPut(currentObj.kv, currentKey, Leaf(v))]
      ELSE IF has /\ Truthy(cur) /\ ~IsObject(cur)
      THEN currentObj
      ELSE LET next == IF has /\ Truthy(cur) THEN cur ELSE Obj(<<>>)
           IN  [currentObj EXCEPT
                  !.kv = ObjPut(currentObj.kv, currentKey, SetPath(next, Tail(keys), v))]

RECURSIVE UnflattenWalk(_, _, _)
UnflattenWalk(result, obj, i) ==
  IF i > Len(obj) THEN result
  ELSE UnflattenWalk(SetPath(result, Split(obj[i][1], Dot), obj[i][2]), obj, i + 1)

unflattenObject(obj) == convertArrayLikeObjects(UnflattenWalk(Obj(<<>>), obj, 1))

----------------------------------------------------------------------------
(* Locale and brand addressing *)

JsonExt == <<".", "j", "s", "o", "n">>

\* path.basename(p)
Basename(p) == LET parts == Split(p, Sep) IN parts[Len(parts)]

\* path.basename(p, ext)
BasenameExt(p, ext) ==
  LET b == Basename(p)
  IN  IF EndsWith(b, ext) /\ b # ext THEN SubSeq(b, 1, Len(b) - Len(ext)) ELSE b

\* path.dirname(p)
Dirname(p) == LET parts == Split(p, Sep) IN Join(SubSeq(parts, 1, Len(parts) - 1), Sep)

\* path.resolve(cwd, rel) for a relative path without "." or ".." segments
Resolve(cwd, rel) == cwd \o Sep \o rel

getFileLocale(filePath, source) ==
  IF source = "filename" THEN BasenameExt(filePath, JsonExt)
  ELSE Basename(Dirname(filePath))

getFileBrand(filePath, brandPosition) ==
  Reverse(Split(filePath, Sep))[brandPosition + 1]

setFileBrand(filePath, brandPosition, brand) ==
  LET parts == Reverse(Split(filePath, Sep))
  IN  Join(Reverse([parts EXCEPT ![brandPosition + 1] = brand]), Sep)

----------------------------------------------------------------------------
(* The translate pipeline: matching and substitution *)

Wrap(text) == Dollar \o text \o Dollar

findPaths(text, allTexts) ==
  SelectSeq(ObjKeys(allTexts),
            LAMBDA key : ObjGet(allTexts, key) = Wrap(text) \/ ObjGet(allTexts, key) = text)

findKeys(text, allTexts) ==
  SelectSeq(ObjKeys(allTexts),
            LAMBDA key : \E i \in 1..Len(Split(key, Dot)) :
                           \/ Split(key, Dot)[i] = Wrap(text)
                           \/ Split(key, Dot)[i] = text)

CoreWord == <<"c", "o", "r", "e">>

Dash == <<"-">>

NotApplicable == <<"N", "/", "A">>

\* The filter of translate.js 205-208 on one cell of a row.
Applicable(locale, translation, sourceLang) ==
  locale # sourceLang /\ Len(Trim(translation)) > 0 /\ translation # NotApplicable

\* translate.js 218
LocaleMatchesExact(fileLocale, locale) == fileLocale = locale

LocaleMatches(fileLocale, locale) == StartsWith(fileLocale, locale)

\* translate.js 232-236: when the core document's map is searched instead.
CoreFallbackAnyLocale(translationPaths, filePath, fileLocale) ==
  Len(translationPaths) = 0 /\ Includes(filePath, CoreWord)

CoreFallback(translationPaths, filePath, fileLocale) ==
  /\ Len(translationPaths) = 0
  /\ Includes(filePath, CoreWord)
  /\ ~Includes(fileLocale, Dash)

\* translate.js 221-247: the paths whose values are substituted.
TranslationPaths(text, filePath, fileLocale, fileContent, core) ==
  LET local == findPaths(text, fileContent)
  IN  IF CoreFallback(local, filePath, fileLocale) THEN findPaths(text, core) ELSE local

\* translate.js 252-254
RECURSIVE Substitute(_, _, _)
Substitute(fileContent, translationPaths, translation) ==
  IF Len(translationPaths) = 0 THEN fileContent
  ELSE Substitute(ObjPut(fileContent, Head(translationPaths), translation),
                  Tail(translationPaths), translation)

\* translate.js 277-280
TranslatedKey(translationKey, text, translation) ==
  ReplaceFirst(translationKey, text, translation)

\* translate.js 276-290: the renames, one key after the other.
RECURSIVE RenameKeys(_, _, _, _)
RenameKeys(fileContent, translationKeys, text, translation) ==
  IF Len(translationKeys) = 0 THEN fileContent
  ELSE LET translationKey == Head(translationKeys)
           translatedKey == TranslatedKey(translationKey, text, translation)
           moved == IF translatedKey # translationKey
                    THEN ObjDel(ObjPut(fileContent, translatedKey,
                                       ObjGet(fileContent, translationKey)),
                                translationKey)
                    ELSE fileContent
       IN  RenameKeys(moved, Tail(translationKeys), text, translation)

\* Whether some key of translationKeys is renamed (translate.js 282).
SomeRenamed(translationKeys, text, translation) ==
  \E i \in 1..Len(translationKeys) :
    TranslatedKey(translationKeys[i], text, translation) # translationKeys[i]

\* translate.js 215-293 for one document and one triple: the document's new
\* map, the paths assigned at line 253, whether the core map was searched,
\* and whether the document joins changedFiles.
TranslateFile(filePath, fileContent, text, locale, translation, core, o) ==
  LET fileLocale == getFileLocale(filePath, o.fileLocaleSource)
      local == findPaths(text, fileContent)
      translationPaths == TranslationPaths(text, filePath, fileLocale, fileContent, core)
      afterValues == Substitute(fileContent, translationPaths, translation)
      translationKeys == IF o.translateKeys THEN findKeys(text, afterValues) ELSE <<>>
      afterKeys == RenameKeys(afterValues, translationKeys, text, translation)
  IN  IF LocaleMatches(fileLocale, locale)
      THEN [content |-> afterKeys,
            assigned |-> {translationPaths[i] : i \in 1..Len(translationPaths)},
            searchedCore |-> CoreFallback(local, filePath, fileLocale),
            changed |-> Len(translationPaths) > 0
                          \/ SomeRenamed(translationKeys, text, translation)]
      ELSE [content |-> fileContent, assigned |-> {}, searchedCore |-> FALSE,
            changed |-> FALSE]

----------------------------------------------------------------------------
(* The normalise pipeline: base documents and duplicate detection *)

\* locale.slice(0, 2)
Slice2(locale) == SubSeq(locale, 1, IF Len(locale) < 2 THEN Len(locale) ELSE 2)

\* translate.js 359-369: the candidate base paths that fs.existsSync keeps.
\* onDisk is the set of paths that exist on disk, loaded or not.
BaseFilesNoLangCore(filePath, o, onDisk) ==
  LET locale == getFileLocale(filePath, o.fileLocaleSource)
      lang == Slice2(locale)
      regional == lang # locale
      brand == getFileBrand(filePath, o.brandPosition)
      baseFilePath == setFileBrand(filePath, o.brandPosition, o.baseBrandName)
      cands == (IF brand # o.baseBrandName THEN <<baseFilePath>> ELSE <<>>)
                 \o (IF regional THEN <<ReplaceFirst(filePath, locale, lang)>> ELSE <<>>)
  IN  SelectSeq(cands, LAMBDA q : q \in onDisk)

BaseFiles(filePath, o, onDisk) ==
  LET locale == getFileLocale(filePath, o.fileLocaleSource)
      lang == Slice2(locale)
      regional == lang # locale
      brand == getFileBrand(filePath, o.brandPosition)
      baseFilePath == setFileBrand(filePath, o.brandPosition, o.baseBrandName)
      cands == (IF brand # o.baseBrandName THEN <<baseFilePath>> ELSE <<>>)
                 \o (IF regional
                     THEN (IF brand # o.baseBrandName
                           THEN <<ReplaceFirst(baseFilePath, locale, lang)>>
                           ELSE <<>>)
                            \o <<ReplaceFirst(filePath, locale, lang)>>
                     ELSE <<>>)
  IN  SelectSeq(cands, LAMBDA q : q \in onDisk)

\* value.startsWith("$") && value.endsWith("$")
IsPlaceholder(value) == StartsWith(value, Dollar) /\ EndsWith(value, Dollar)

\* translate.js 374-381 for one loaded base document.  files[base][key] is
\* undefined for a missing key, and falsy for a missing key and for "".
DupAgainstExactOnly(key, value, base) ==
  ObjHas(base, key) /\ ObjGet(base, key) = value

DupAgainst(key, value, base) ==
  \/ ObjHas(base, key) /\ ObjGet(base, key) = value
  \/ /\ IsPlaceholder(value)
     /\ ObjHas(base, key)
     /\ Len(ObjGet(base, key)) > 0
     /\ ~IsPlaceholder(ObjGet(base, key))

\* baseFiles.some(...) for one entry: "dup", "no", or "throw" when a base
\* that exists on disk is not among the loaded documents before a loaded
\* base has answered (files[baseFilePath] is undefined, and reading
\* undefined[key] throws a TypeError).
RECURSIVE SomeBase(_, _, _, _)
SomeBase(key, value, baseFiles, fs) ==
  IF Len(baseFiles) = 0 THEN "no"
  ELSE IF ~ObjHas(fs, Head(baseFiles)) THEN "throw"
  ELSE IF DupAgainst(key, value, ObjGet(fs, Head(baseFiles))) THEN "dup"
  ELSE SomeBase(key, value, Tail(baseFiles), fs)

\* translate.js 371-383: the duplicate entries of one document.
Duplicates(fileContent, baseFiles, fs) ==
  SelectSeq(fileContent, LAMBDA e : SomeBase(e[1], e[2], baseFiles, fs) = "dup")

Throws(fileContent, baseFiles, fs) ==
  \E i \in 1..Len(fileContent) :
    SomeBase(fileContent[i][1], fileContent[i][2], baseFiles, fs) = "throw"

\* translate.js 394-408
RECURSIVE DeleteAll(_, _)
DeleteAll(fileContent, duplicates) ==
  IF Len(duplicates) = 0 THEN fileContent
  ELSE DeleteAll(ObjDel(fileContent, Head(duplicates)[1]), Tail(duplicates))

----------------------------------------------------------------------------
(* State *)

VARIABLES
  tree,          \* the tree handed to flattenObject
  flat,          \* a flattened map: flattenObject's result, unflattenObject's input
  back,          \* unflattenObject's result
  fpc,           \* "tree", "flat", "back": how far the round trip has gone
  cmd,           \* the command of the run: "translate", "normalise" ("flat": none)
  disk,          \* the JSON documents on disk: absolute path -> tree
  opts,          \* the command's options
  table,         \* the parsed CSV: [header, rows]
  files,         \* the loaded documents: absolute path -> flattened map
  coreTranslations, \* the core document's flattened map (translate)
  changedFiles,  \* the changed-set, in push order
  written,       \* the paths fs.writeFileSync was called on in this run
  pc,            \* "start", "loop", "done", "error"
  pos,           \* translate: the next cell, counted over rows x columns
  run,           \* normalise: the number of the run
  processed,     \* normalise: the documents visited so far, in order
  pre,           \* translate: files before the last cell; normalise: files as loaded
  assigned,      \* translate: document -> the flat paths line 253 assigned in the last cell
  searched       \* translate: the documents whose last cell searched the core map

flatVars == <<tree, flat, back, fpc>>

pipeVars == <<cmd, disk, opts, table, files, coreTranslations, changedFiles, written,
              pc, pos, run, processed, pre, assigned, searched>>

vars == <<flatVars, pipeVars>>

----------------------------------------------------------------------------
(* Documents on disk *)

Cwd == <<"/", "w">>

En == <<"e", "n">>
Fr == <<"f", "r">>
FrCA == <<"f", "r", "-", "C", "A">>
De == <<"d", "e">>
Acme == <<"a", "c", "m", "e">>

\* The relative path of brand's document for locale: <brand>/a/b/<locale>.json
\* when the locale is the file name, <brand>/a/<locale>/m.json when it is
\* the directory name.  The brand is BrandPosition segments before the file.
RelPath(brand, locale, source) ==
  IF source = "filename"
  THEN brand \o <<"/", "a", "/", "b", "/">> \o locale \o JsonExt
  ELSE brand \o <<"/", "a", "/">> \o locale \o <<"/", "m">> \o JsonExt

AbsPath(brand, locale, source) == Resolve(Cwd, RelPath(brand, locale, source))

BrandPosition == 3

\* glob.sync(pattern, {cwd}): the matched relative paths, in listing order.
GlobSync(listing, matched) == SelectSeq(listing, LAMBDA fp : fp \in matched)

\* translate.js 160-170 / 332-342
RECURSIVE LoadFiles(_, _, _)
LoadFiles(filePaths, d, acc) ==
  IF Len(filePaths) = 0 THEN acc
  ELSE LoadFiles(Tail(filePaths), d,
                 ObjPut(acc, Resolve(Cwd, Head(filePaths)),
                        flattenObject(d[Resolve(Cwd, Head(filePaths))], <<>>)))

\* translate.js 256-258: if (!changedFiles.includes(filePath)) push
PushOnce(cf, filePath) ==
  IF \E i \in 1..Len(cf) : cf[i] = filePath THEN cf ELSE Append(cf, filePath)

ToSet(q) == {q[i] : i \in 1..Len(q)}

\* writeChanges, translate.js 105-110: which documents are written.
Written(fs, cf) == KeySet(fs)

----------------------------------------------------------------------------
(* The flatten / unflatten round trip on bounded inputs *)

MaxLeaves == 2

NoTree == Leaf(<<>>)

\* Path segments: a name and two array indices.
Segs == {<<"a">>, <<"0">>, <<"1">>}

SegPaths ==
  {<<k>> : k \in Segs} \cup {<<k, l>> : k \in Segs, l \in Segs}
    \cup {<<k, l, m>> : k \in Segs, l \in Segs, m \in Segs}

IsPrefix(p, q) == Len(p) <= Len(q) /\ SubSeq(q, 1, Len(p)) = p

PrefixFree(S) == \A p \in S, q \in S : p # q => ~IsPrefix(p, q)

\* The prefix-free sets of at most n paths.
RECURSIVE PathSets(_)
PathSets(n) ==
  IF n = 0 THEN {{}}
  ELSE LET prev == PathSets(n - 1)
       IN  prev \cup UNION {{S \cup {p} : p \in {q \in SegPaths : PrefixFree(S \cup {q})}} :
                               S \in prev}

\* What a leaf position of an input tree holds: a text, or an empty mapping.
LeafKinds == {Leaf(<<"v">>), Obj(<<>>)}

RECURSIVE TreePut(_, _, _)
TreePut(node, segs, n) ==
  IF Len(segs) = 1 THEN Obj(ObjPut(node.kv, segs[1], n))
  ELSE LET sub == IF ObjHas(node.kv, segs[1]) THEN ObjGet(node.kv, segs[1]) ELSE Obj(<<>>)
       IN  Obj(ObjPut(node.kv, segs[1], TreePut(sub, Tail(segs), n)))

\* The sequence-free tree with leaf g[p] at every path p of S.
RECURSIVE MkTree(_, _, _)
MkTree(S, g, node) ==
  IF S = {} THEN node
  ELSE LET p == CHOOSE q \in S : TRUE
       IN  MkTree(S \ {p}, g, TreePut(node, p, g[p]))

\* The flat map with value "v" at every path of S.
RECURSIVE MkFlat(_, _)
MkFlat(S, o) ==
  IF S = {} THEN o
  ELSE LET p == CHOOSE q \in S : TRUE
       IN  MkFlat(S \ {p}, ObjPut(o, Join(p, Dot), <<"v">>))

\* No pipeline runs while the round trip is checked.
PipeIdle ==
  /\ cmd = "flat"
  /\ disk = <<>>
  /\ opts = <<>>
  /\ table = <<>>
  /\ files = <<>>
  /\ coreTranslations = <<>>
  /\ changedFiles = <<>>
  /\ written = {}
  /\ pc = "done"
  /\ pos = 0
  /\ run = 0
  /\ processed = <<>>
  /\ pre = <<>>
  /\ assigned = <<>>
  /\ searched = {}

FlatIdle ==
  /\ tree = NoTree
  /\ flat = <<>>
  /\ back = NoTree
  /\ fpc = "idle"

InitFlat ==
  \/ /\ \E S \in PathSets(MaxLeaves) : \E g \in [S -> LeafKinds] :
          tree = MkTree(S, g, Obj(<<>>))
     /\ flat = <<>>
     /\ back = NoTree
     /\ fpc = "tree"
     /\ PipeIdle
  \/ /\ \E S \in PathSets(MaxLeaves) : flat = MkFlat(S, <<>>)
     /\ tree = NoTree
     /\ back = NoTree
     /\ fpc = "flat"
     /\ PipeIdle

Flatten ==
  /\ fpc = "tree"
  /\ flat' = flattenObject(tree, <<>>)
  /\ fpc' = "flat"
  /\ UNCHANGED <<tree, back, pipeVars>>

Unflatten ==
  /\ fpc = "flat"
  /\ back' = unflattenObject(flat)
  /\ fpc' = "back"
  /\ UNCHANGED <<tree, flat, pipeVars>>

NextFlat == Flatten \/ Unflatten

SpecFlat == InitFlat /\ [][NextFlat]_vars

----------------------------------------------------------------------------
(* Claims about flattenObject / unflattenObject *)

\* Structural equality of two trees, whatever the order of their keys.
RECURSIVE SameTree(_, _)
SameTree(x, y) ==
  /\ x.t = y.t
  /\ x.s = y.s
  /\ KeySet(x.kv) = KeySet(y.kv)
  /\ \A k \in KeySet(x.kv) : SameTree(ObjGet(x.kv, k), ObjGet(y.kv, k))

RoundTripDone == fpc = "back" /\ tree.t = "obj"

IndexLike(n) ==
  \A i \in 1..Len(n.kv) :
    LET d == LeadingDigits(n.kv[i][1]) IN d # <<>> /\ ToNumber(d) = i - 1

RECURSIVE NoIndexLikeBelow(_)
NoIndexLikeBelow(n) ==
  \A i \in 1..Len(n.kv) :
    LET c == n.kv[i][2]
    IN  IsObject(c) => (~IndexLike(c) /\ NoIndexLikeBelow(c))

InteriorPrefixes(o) ==
  UNION {{SubSeq(Split(o[i][1], Dot), 1, n) : n \in 0..(Len(Split(o[i][1], Dot)) - 1)} :
           i \in 1..Len(o)}

\* The keys of the interior node at prefix p.
ChildSegs(o, p) ==
  {Split(o[i][1], Dot)[Len(p) + 1] :
     i \in {j \in 1..Len(o) : LET q == Split(o[j][1], Dot)
                               IN  Len(q) > Len(p) /\ SubSeq(q, 1, Len(p)) = p}}

\* ks is exactly {"0", "1", ..., "N-1"}, N >= 1.
ExactIndexKeys(ks) == ks # {} /\ ks = {IdxStr(n) : n \in 0..(Cardinality(ks) - 1)}

RECURSIVE NodeAt(_, _)
NodeAt(n, segs) ==
  IF Len(segs) = 0 THEN n ELSE NodeAt(ObjGet(n.kv, Head(segs)), Tail(segs))

\* C7 as stated: after unflattenObject every interior node, the top-level
\* result included, whose keys are exactly "0".."N-1" is a sequence, and
\* every interior node with another key set is a keyed mapping.
C7_ArrayInference ==
  fpc = "back" =>
    \A p \in InteriorPrefixes(flat) :
      NodeAt(back, p).t = (IF ExactIndexKeys(ChildSegs(flat, p)) THEN "arr" ELSE "obj")

----------------------------------------------------------------------------
(* The translate pipeline *)

MaxRows == 1

Ok == <<"O", "k">>
Ja == <<"J", "a">>
No == <<"N", "o">>
Ne == <<"N", "e">>
Go == <<"G", "o">>

\* The core document (source language): a value the other documents share
\* ("t") and one only the core has ("b.c").
CoreDoc ==
  Obj(<< <<<<"t">>, Leaf(Ok)>>,
         <<<<"b">>, Obj(<< <<<<"c">>, Leaf(Ok)>> >>)>> >>)

\* The bare phrase, its placeholder form and a sequence that holds it.
DocValues ==
  Obj(<< <<<<"t">>, Leaf(Ok)>>,
         <<<<"p">>, Leaf(Wrap(Ok))>>,
         <<<<"l">>, Arr(<< <<<<"0">>, Leaf(No)>>, <<<<"1">>, Leaf(Ok)>> >>)>> >>)

\* No occurrence of the phrase "Ok".
DocNoMatch == Obj(<< <<<<"n">>, Leaf(No)>> >>)

\* The phrase and its placeholder form as keys.
DocKeys ==
  Obj(<< <<<<"m">>, Obj(<< <<Ok, Obj(<< <<<<"l">>, Leaf(Ok)>> >>)>>,
                           <<Wrap(Ok), Leaf(Go)>> >>)>> >>)

\* The phrase twice in one path.
DocKeyTwice == Obj(<< <<Ok, Obj(<< <<Ok, Leaf(Go)>> >>)>> >>)

TranslateDocs == {DocValues, DocNoMatch, DocKeys, DocKeyTwice}

Header == <<En, Fr>>

\* A row: the source phrase and the cell of column fr.
RowPool == {<<Ok, Ja>>, <<Ok, NotApplicable>>, <<Ok, <<" ">>>>, <<No, Ne>>}

RECURSIVE Tables(_)
Tables(n) ==
  IF n = 1 THEN {<<r>> : r \in RowPool}
  ELSE Tables(n - 1) \cup {Append(t, r) : t \in Tables(n - 1), r \in RowPool}

\* The documents of a normalise run, in listing order: two brands, a
\* language and one of its regions.
NormaliseListing(source) ==
  << RelPath(Acme, Fr, source), RelPath(Acme, FrCA, source),
     RelPath(CoreWord, Fr, source), RelPath(CoreWord, FrCA, source) >>

\* The documents of a translate run, in listing order.
TranslateListing(source) ==
  << RelPath(Acme, Fr, source), RelPath(CoreWord, De, source),
     RelPath(CoreWord, En, source), RelPath(CoreWord, Fr, source),
     RelPath(CoreWord, FrCA, source) >>

InitTranslate ==
  /\ FlatIdle
  /\ cmd = "translate"
  /\ \E tk \in BOOLEAN, src \in {"filename", "dirname"} :
       /\ opts = [translateKeys |-> tk, fileLocaleSource |-> src,
                  matched |-> ToSet(TranslateListing(src))]
       /\ \E hasCore \in BOOLEAN, d1 \in TranslateDocs, d2 \in TranslateDocs,
             d3 \in TranslateDocs :
            disk = [q \in {AbsPath(Acme, Fr, src), AbsPath(CoreWord, De, src),
                           AbsPath(CoreWord, Fr, src), AbsPath(CoreWord, FrCA, src)}
                            \cup (IF hasCore THEN {AbsPath(CoreWord, En, src)} ELSE {})
                      |-> IF q = AbsPath(CoreWord, En, src) THEN CoreDoc
                          ELSE IF q = AbsPath(CoreWord, De, src) THEN DocValues
                          ELSE IF q = AbsPath(Acme, Fr, src) THEN d1
                          ELSE IF q = AbsPath(CoreWord, Fr, src) THEN d2
                          ELSE d3]
  /\ \E t \in Tables(MaxRows) : table = [header |-> Header, rows |-> t]
  /\ files = <<>>
  /\ coreTranslations = <<>>
  /\ changedFiles = <<>>
  /\ written = {}
  /\ pc = "start"
  /\ pos = 0
  /\ run = 1
  /\ processed = <<>>
  /\ pre = <<>>
  /\ assigned = <<>>
  /\ searched = {}

\* Object.keys(translations[0])[0]
SourceLang == table.header[1]

\* The destination paths glob.sync finds: the matched paths that exist.
FilePaths ==
  LET source == opts.fileLocaleSource
      listing == IF cmd = "translate" THEN TranslateListing(source)
                 ELSE NormaliseListing(source)
  IN  SelectSeq(GlobSync(listing, opts.matched), LAMBDA fp : Resolve(Cwd, fp) \in DOMAIN disk)

\* translate.js 177-183, without the --core option
CoreCandidates ==
  SelectSeq(FilePaths,
            LAMBDA fp : Includes(fp, CoreWord)
                          /\ getFileLocale(fp, opts.fileLocaleSource) = SourceLang)

\* translate.js 140-201: the set-up of a translate run.
TranslateStart ==
  /\ cmd = "translate" /\ pc = "start"
  /\ Len(CoreCandidates) > 0
  /\ files' = LoadFiles(FilePaths, disk, <<>>)
  /\ coreTranslations' = flattenObject(disk[Resolve(Cwd, CoreCandidates[1])], <<>>)
  /\ changedFiles' = <<>>
  /\ pc' = "loop"
  /\ pos' = 1
  /\ pre' = files'
  /\ UNCHANGED <<flatVars, cmd, disk, opts, table, written, run, processed, assigned,
                 searched>>

\* translate.js 187: no core document is found, and path.resolve(cwd,
\* undefined) throws.
TranslateNoCore ==
  /\ cmd = "translate" /\ pc = "start"
  /\ Len(CoreCandidates) = 0
  /\ pc' = "error"
  /\ UNCHANGED <<flatVars, cmd, disk, opts, table, files, coreTranslations,
                 changedFiles, written, pos, run, processed, pre, assigned, searched>>

NumCells == Len(table.rows) * Len(table.header)

\* The row and the column of cell n.
CellRow(n) == table.rows[((n - 1) \div Len(table.header)) + 1]

CellCol(n) == ((n - 1) % Len(table.header)) + 1

CellLocale(n) == table.header[CellCol(n)]

CellText(n) == CellRow(n)[1]

CellTranslation(n) == CellRow(n)[CellCol(n)]

\* TranslateFile on every loaded document, in the order of Object.entries.
TranslateResults(fs, n) ==
  [i \in 1..Len(fs) |->
     TranslateFile(fs[i][1], fs[i][2], CellText(n), CellLocale(n), CellTranslation(n),
                   coreTranslations, opts)]

RECURSIVE PushChanged(_, _, _, _)
PushChanged(cf, fs, res, i) ==
  IF i > Len(fs) THEN cf
  ELSE PushChanged(IF res[i].changed THEN PushOnce(cf, fs[i][1]) ELSE cf, fs, res, i + 1)

\* translate.js 209-295: one applicable cell, over every loaded document.
TranslateCell ==
  /\ cmd = "translate" /\ pc = "loop" /\ pos <= NumCells
  /\ Applicable(CellLocale(pos), CellTranslation(pos), SourceLang)
  /\ \E res \in {TranslateResults(files, pos)} :
       /\ files' = [i \in 1..Len(files) |-> <<files[i][1], res[i].content>>]
       /\ changedFiles' = PushChanged(changedFiles, files, res, 1)
       /\ assigned' = [i \in 1..Len(files) |-> <<files[i][1], res[i].assigned>>]
       /\ searched' = {files[i][1] : i \in {j \in 1..Len(files) : res[j].searchedCore}}
  /\ pre' = files
  /\ pos' = pos + 1
  /\ UNCHANGED <<flatVars, cmd, disk, opts, table, coreTranslations, written, pc, run,
                 processed>>

\* translate.js 205-208: the source column, a blank cell or an N/A cell.
SkipCell ==
  /\ cmd = "translate" /\ pc = "loop" /\ pos <= NumCells
  /\ ~Applicable(CellLocale(pos), CellTranslation(pos), SourceLang)
  /\ pos' = pos + 1
  /\ pre' = files
  /\ assigned' = <<>>
  /\ searched' = {}
  /\ UNCHANGED <<flatVars, cmd, disk, opts, table, files, coreTranslations,
                 changedFiles, written, pc, run, processed>>

LoopOver ==
  IF cmd = "translate" THEN pos > NumCells
  ELSE ToSet(processed) = KeySet(files)

\* writeChanges, translate.js 101-111
WriteChanges ==
  /\ pc = "loop" /\ LoopOver
  /\ written' = Written(files, changedFiles)
  /\ disk' = [q \in DOMAIN disk |->
                IF q \in Written(files, changedFiles) THEN unflattenObject(ObjGet(files, q))
                ELSE disk[q]]
  /\ pc' = "done"
  /\ UNCHANGED <<flatVars, cmd, opts, table, files, coreTranslations, changedFiles, pos,
                 run, processed, pre, assigned, searched>>

NextTranslate == TranslateStart \/ TranslateNoCore \/ TranslateCell \/ SkipCell \/ WriteChanges

SpecTranslate == InitTranslate /\ [][NextTranslate]_vars


----------------------------------------------------------------------------
(* The normalise pipeline *)

MaxRuns == 2

Hi == <<"H", "i">>
Yo == <<"Y", "o">>

\* Resolved values, an empty text and a sequence.
DocResolved ==
  Obj(<< <<<<"t">>, Leaf(Hi)>>,
         <<<<"e">>, Leaf(<<>>)>>,
         <<<<"k">>, Arr(<< <<<<"0">>, Leaf(<<"A">>)>> >>)>> >>)

\* Placeholders, and a mapping whose one key starts with the digit 0.
DocPlaceholder ==
  Obj(<< <<<<"t">>, Leaf(Wrap(Hi))>>,
         <<<<"e">>, Leaf(Wrap(Hi))>>,
         <<<<"k">>, Obj(<< <<<<"0", "a">>, Leaf(<<"A">>)>> >>)>> >>)

\* A translation of its own.
DocDivergent == Obj(<< <<<<"t">>, Leaf(Yo)>>, <<<<"e">>, Leaf(<<>>)>> >>)

DocEmpty == Obj(<<>>)

NormaliseDocs == {DocResolved, DocPlaceholder, DocDivergent}

\* What a path of the listing is: not on disk, on disk but not matched by
\* the files pattern, or matched and holding one of the documents.
FileStates ==
  {[onDisk |-> FALSE, matched |-> FALSE, doc |-> DocEmpty],
   [onDisk |-> TRUE, matched |-> FALSE, doc |-> DocResolved]}
    \cup {[onDisk |-> TRUE, matched |-> TRUE, doc |-> d] : d \in NormaliseDocs}

InitNormalise ==
  /\ FlatIdle
  /\ cmd = "normalise"
  /\ \E src \in {"filename", "dirname"} :
       \E st \in [1..Len(NormaliseListing(src)) -> FileStates] :
         /\ opts = [fileLocaleSource |-> src, brandPosition |-> BrandPosition,
                    baseBrandName |-> CoreWord,
                    matched |-> {NormaliseListing(src)[i] :
                                   i \in {j \in 1..Len(NormaliseListing(src)) :
                                            st[j].matched}}]
         /\ disk = [q \in {Resolve(Cwd, NormaliseListing(src)[i]) :
                             i \in {j \in 1..Len(NormaliseListing(src)) : st[j].onDisk}}
                      |-> st[CHOOSE i \in 1..Len(NormaliseListing(src)) :
                               Resolve(Cwd, NormaliseListing(src)[i]) = q].doc]
  /\ table = <<>>
  /\ files = <<>>
  /\ coreTranslations = <<>>
  /\ changedFiles = <<>>
  /\ written = {}
  /\ pc = "start"
  /\ pos = 0
  /\ run = 1
  /\ processed = <<>>
  /\ pre = <<>>
  /\ assigned = <<>>
  /\ searched = {}

\* translate.js 325-349: the set-up of a normalise run.
NormaliseStart ==
  /\ cmd = "normalise" /\ pc = "start"
  /\ files' = LoadFiles(FilePaths, disk, <<>>)
  /\ pre' = files'
  /\ changedFiles' = <<>>
  /\ processed' = <<>>
  /\ pc' = "loop"
  /\ UNCHANGED <<flatVars, cmd, disk, opts, table, coreTranslations, written, pos, run,
                 assigned, searched>>

\* translate.js 351-409 for one document: its duplicates are deleted.
NormaliseOne(fs, cf, filePath) ==
  LET fileContent == ObjGet(fs, filePath)
      baseFiles == BaseFiles(filePath, opts, DOMAIN disk)
      duplicates == Duplicates(fileContent, baseFiles, fs)
  IN  [throws |-> Throws(fileContent, baseFiles, fs),
       files |-> ObjPut(fs, filePath, DeleteAll(fileContent, duplicates)),
       changedFiles |-> IF Len(duplicates) > 0 THEN PushOnce(cf, filePath) ELSE cf]

\* One turn of the loop of translate.js 351.  The order of the turns is the
\* order in which glob listed the documents, which the pattern and the
\* directory names decide: any order.
NormaliseFile ==
  /\ cmd = "normalise" /\ pc = "loop"
  /\ \E i \in 1..Len(files) :
       /\ files[i][1] \notin ToSet(processed)
       /\ \E r \in {NormaliseOne(files, changedFiles, files[i][1])} :
            /\ ~r.throws
            /\ files' = r.files
            /\ changedFiles' = r.changedFiles
       /\ processed' = Append(processed, files[i][1])
  /\ UNCHANGED <<flatVars, cmd, disk, opts, table, coreTranslations, written, pc, pos,
                 run, pre, assigned, searched>>

\* translate.js 374: files[baseFilePath] is undefined for a base that is on
\* disk but not loaded; the TypeError ends the run before writeChanges.
NormaliseCrash ==
  /\ cmd = "normalise" /\ pc = "loop"
  /\ \E i \in 1..Len(files) :
       /\ files[i][1] \notin ToSet(processed)
       /\ NormaliseOne(files, changedFiles, files[i][1]).throws
  /\ pc' = "error"
  /\ UNCHANGED <<flatVars, cmd, disk, opts, table, files, coreTranslations,
                 changedFiles, written, pos, run, processed, pre, assigned, searched>>

\* The command is run again on what the last run wrote.
Rerun ==
  /\ cmd = "normalise" /\ pc = "done" /\ run < MaxRuns
  /\ run' = run + 1
  /\ pc' = "start"
  /\ files' = <<>>
  /\ pre' = <<>>
  /\ changedFiles' = <<>>
  /\ processed' = <<>>
  /\ written' = {}
  /\ UNCHANGED <<flatVars, cmd, disk, opts, table, coreTranslations, pos, assigned,
                 searched>>

NextNormalise == NormaliseStart \/ NormaliseFile \/ NormaliseCrash \/ WriteChanges \/ Rerun

SpecNormalise == InitNormalise /\ [][NextNormalise]_vars

Init == InitFlat \/ InitTranslate \/ InitNormalise

Next == NextFlat \/ NextTranslate \/ NextNormalise

Spec == Init /\ [][Next]_vars

----------------------------------------------------------------------------
(* Claims about translate *)

\* The last step processed an applicable cell: cell pos - 1, on the maps pre.
CellDone == cmd = "translate" /\ pc \in {"loop", "done"} /\ Len(assigned) > 0

LastText == CellText(pos - 1)

LastLocale == CellLocale(pos - 1)

LastTranslation == CellTranslation(pos - 1)

DocLocale(q) == getFileLocale(q, opts.fileLocaleSource)

\* The value v is the phrase or its placeholder form.
IsMatch(v, text) == v = text \/ v = Dollar \o text \o Dollar

HasMatch(o, text) == \E j \in 1..Len(o) : IsMatch(o[j][2], text)

\* The path k has a dot-separated segment that is the phrase or $phrase$.
HasSegment(k, text) ==
  \E n \in 1..Len(Split(k, Dot)) : IsMatch(Split(k, Dot)[n], text)

\* C1 as stated: after an applicable triple every path whose value was the
\* phrase or $phrase$ holds the translation, in every document whose locale
\* starts with the column locale, and no other document is mutated.
C1_ValuesTranslatedAlways ==
  CellDone =>
    \A i \in 1..Len(pre) :
      LET q == pre[i][1]
          before == pre[i][2]
          after == ObjGet(files, q)
      IN  IF StartsWith(DocLocale(q), LastLocale)
          THEN \A j \in 1..Len(before) :
                 IsMatch(before[j][2], LastText) =>
                   /\ ObjHas(after, before[j][1])
                   /\ ObjGet(after, before[j][1]) = LastTranslation
          ELSE after = before

\* The paths a key rename of the last cell moves, and the paths it moves to.
RenameTouched(before, paths) ==
  LET ks == {k \in KeySet(before) \cup paths : HasSegment(k, LastText)}
  IN  ks \cup {ReplaceFirst(k, LastText, LastTranslation) : k \in ks}

\* C1 amended: as C1, for every such path that, with translateKeys enabled,
\* has no segment equal to the phrase or $phrase$ and is not the path such a
\* key is renamed to (those are moved or overwritten by the key renaming of
\* the same triple).
C1_ValuesTranslated ==
  CellDone =>
    \A i \in 1..Len(pre) :
      LET q == pre[i][1]
          before == pre[i][2]
          after == ObjGet(files, q)
      IN  IF StartsWith(DocLocale(q), LastLocale)
          THEN \A j \in 1..Len(before) :
                 ( /\ IsMatch(before[j][2], LastText)
                   /\ ~(opts.translateKeys
                          /\ before[j][1] \in RenameTouched(before, assigned[i][2])) ) =>
                   /\ ObjHas(after, before[j][1])
                   /\ ObjGet(after, before[j][1]) = LastTranslation
          ELSE after = before

\* C1 witness: column fr has rewritten a bare and a placeholder value of
\* document fr-CA, and document de still holds the phrase.
C1_Witness ==
  /\ CellDone
  /\ LastLocale = Fr
  /\ \E i \in 1..Len(pre) :
       /\ DocLocale(pre[i][1]) = FrCA
       /\ \E j \in 1..Len(pre[i][2]), k \in 1..Len(pre[i][2]) :
            /\ pre[i][2][j][2] = LastText
            /\ pre[i][2][k][2] = Wrap(LastText)
            /\ ObjGet(ObjGet(files, pre[i][1]), pre[i][2][j][1]) = LastTranslation
            /\ ObjGet(ObjGet(files, pre[i][1]), pre[i][2][k][1]) = LastTranslation
  /\ \E i \in 1..Len(files) :
       DocLocale(files[i][1]) = De /\ HasMatch(files[i][2], LastText)

Values(o) == {o[j][2] : j \in 1..Len(o)}

\* C2: for a document whose locale matches the column and that has no path
\* whose value is the phrase or $phrase$, the core map is searched, and the
\* paths found there are written into the document, exactly when the
\* document's path contains "core" and its locale has no "-"; for every
\* other such document no value is assigned (without translateKeys the map
\* is unchanged; with it entries are only moved).
C2_CoreFallback ==
  CellDone =>
    \A i \in 1..Len(pre) :
      LET q == pre[i][1]
          before == pre[i][2]
          after == ObjGet(files, q)
          coreDoc == Includes(q, CoreWord) /\ ~Includes(DocLocale(q), Dash)
          corePaths == {coreTranslations[j][1] :
                          j \in {n \in 1..Len(coreTranslations) :
                                   IsMatch(coreTranslations[n][2], LastText)}}
      IN  (StartsWith(DocLocale(q), LastLocale) /\ ~HasMatch(before, LastText)) =>
            /\ q \in searched <=> coreDoc
            /\ coreDoc => assigned[i][2] = corePaths
            /\ (coreDoc /\ ~opts.translateKeys) =>
                 \A k \in corePaths : ObjHas(after, k) /\ ObjGet(after, k) = LastTranslation
            /\ ~coreDoc =>
                 /\ assigned[i][2] = {}
                 /\ Values(after) \subseteq Values(before)
                 /\ ~opts.translateKeys => after = before

\* C2 witness: one cell that left a non-core document and a regional core
\* document without a match untouched although the core map holds the
\* phrase, and wrote the core paths into the non-regional core document.
C2_Witness ==
  /\ CellDone
  /\ HasMatch(coreTranslations, LastText)
  /\ \E i \in 1..Len(pre), j \in 1..Len(pre), k \in 1..Len(pre) :
       /\ ~Includes(pre[i][1], CoreWord)
       /\ Includes(DocLocale(pre[j][1]), Dash)
       /\ \A n \in {i, j, k} :
            /\ StartsWith(DocLocale(pre[n][1]), LastLocale)
            /\ ~HasMatch(pre[n][2], LastText)
       /\ ObjGet(files, pre[i][1]) = pre[i][2]
       /\ ObjGet(files, pre[j][1]) = pre[j][2]
       /\ pre[k][1] \in searched
       /\ ObjHas(ObjGet(files, pre[k][1]), <<"b", ".", "c">>)
       /\ ~ObjHas(pre[k][2], <<"b", ".", "c">>)

\* The path k with the phrase replaced in every segment that is the phrase
\* or $phrase$.
AllSegmentsTranslated(k, text, translation) ==
  Join([n \in 1..Len(Split(k, Dot)) |->
          LET part == Split(k, Dot)[n]
          IN  IF part = text THEN translation
              ELSE IF part = Dollar \o text \o Dollar THEN Dollar \o translation \o Dollar
              ELSE part], Dot)

\* C3 as stated: with translateKeys, every path of a matching document with
\* a segment equal to the phrase or $phrase$ is afterwards held under the
\* path with the phrase replaced in every such segment, with the value it
\* held before the rename; the old path is absent; every other entry is kept.
C3_KeysRenamed ==
  (CellDone /\ opts.translateKeys) =>
    \A i \in 1..Len(pre) :
      LET q == pre[i][1]
          before == pre[i][2]
          after == ObjGet(files, q)
          held(k) == IF k \in assigned[i][2] THEN LastTranslation ELSE ObjGet(before, k)
      IN  StartsWith(DocLocale(q), LastLocale) =>
            \A k \in KeySet(before) \cup assigned[i][2] :
              LET nk == AllSegmentsTranslated(k, LastText, LastTranslation)
              IN  /\ ObjHas(after, nk)
                  /\ ObjGet(after, nk) = held(k)
                  /\ nk # k => ~ObjHas(after, k)

\* C8 as stated: at the end of a run a document is written if and only if
\* it is in the changed-set.
C8_OnlyChangedWritten ==
  pc = "done" => written = ToSet(changedFiles)

----------------------------------------------------------------------------
(* Claims about normalise *)

\* Every loaded document has had its turn in this run.
NormLoopDone ==
  cmd = "normalise" /\ pc \in {"loop", "done"} /\ ToSet(processed) = KeySet(files)

DocPath(b, l) == AbsPath(b, l, opts.fileLocaleSource)

\* The loaded candidate bases of brand b's document for locale l: the base
\* brand's document for l (unless b is the base brand) and, for the regional
\* locale, the language-only documents of the base brand and of b.
Candidates(b, l) ==
  ( (IF b # CoreWord THEN {DocPath(CoreWord, l)} ELSE {})
      \cup (IF l = FrCA
            THEN {DocPath(b, Fr)} \cup (IF b # CoreWord THEN {DocPath(CoreWord, Fr)} ELSE {})
            ELSE {}) )
    \cap KeySet(files)

\* The duplicate rule as C4 states it.
StatedDuplicate(k, v, base) ==
  /\ ObjHas(base, k)
  /\ \/ ObjGet(base, k) = v
     \/ IsPlaceholder(v) /\ ~IsPlaceholder(ObjGet(base, k))

\* The rule with "non-placeholder" read as "non-empty and non-placeholder".
AmendedDuplicate(k, v, base) ==
  /\ ObjHas(base, k)
  /\ \/ ObjGet(base, k) = v
     \/ IsPlaceholder(v) /\ ~IsPlaceholder(ObjGet(base, k)) /\ ObjGet(base, k) # <<>>

\* C4 as stated: an entry of a document as loaded is removed exactly when a
\* candidate base, as loaded, has its key with the same value or, the
\* entry being a placeholder, with a non-placeholder value; every other
\* entry keeps its value (a document without candidates loses nothing).
C4_RemovedIffStatedDuplicate ==
  NormLoopDone =>
    \A b \in {CoreWord, Acme}, l \in {Fr, FrCA} :
      DocPath(b, l) \in KeySet(files) =>
        LET before == ObjGet(pre, DocPath(b, l))
            after == ObjGet(files, DocPath(b, l))
        IN  /\ KeySet(after) \subseteq KeySet(before)
            /\ \A j \in 1..Len(before) :
                 LET k == before[j][1]
                     v == before[j][2]
                     dup == \E c \in Candidates(b, l) : StatedDuplicate(k, v, ObjGet(pre, c))
                 IN  /\ dup <=> ~ObjHas(after, k)
                     /\ ~dup => ObjGet(after, k) = v

\* C4 amended: as C4, with the second case being: the entry is a placeholder
\* and the base has its key with a non-empty, non-placeholder value.
C4_RemovedIffDuplicate ==
  NormLoopDone =>
    \A b \in {CoreWord, Acme}, l \in {Fr, FrCA} :
      DocPath(b, l) \in KeySet(files) =>
        LET before == ObjGet(pre, DocPath(b, l))
            after == ObjGet(files, DocPath(b, l))
        IN  /\ KeySet(after) \subseteq KeySet(before)
            /\ \A j \in 1..Len(before) :
                 LET k == before[j][1]
                     v == before[j][2]
                     dup == \E c \in Candidates(b, l) : AmendedDuplicate(k, v, ObjGet(pre, c))
                 IN  /\ dup <=> ~ObjHas(after, k)
                     /\ ~dup => ObjGet(after, k) = v

\* C4 witness: one finished run in which the base document kept everything,
\* a plain duplicate and a placeholder of a resolved value were removed, and
\* a divergent translation was kept.
C4_Witness ==
  /\ NormLoopDone
  /\ \A b \in {CoreWord, Acme}, l \in {Fr, FrCA} : DocPath(b, l) \in KeySet(files)
  /\ ObjGet(files, DocPath(CoreWord, Fr)) = ObjGet(pre, DocPath(CoreWord, Fr))
  /\ ObjGet(ObjGet(pre, DocPath(CoreWord, Fr)), <<"t">>) = Hi
  /\ ObjGet(ObjGet(pre, DocPath(CoreWord, FrCA)), <<"t">>) = Hi
  /\ ~ObjHas(ObjGet(files, DocPath(CoreWord, FrCA)), <<"t">>)
  /\ ObjGet(ObjGet(pre, DocPath(Acme, FrCA)), <<"t">>) = Wrap(Hi)
  /\ ~ObjHas(ObjGet(files, DocPath(Acme, FrCA)), <<"t">>)
  /\ ObjGet(ObjGet(files, DocPath(Acme, Fr)), <<"t">>) = Yo

\* C5 as stated: a second run of normalise on what the first run wrote
\* removes nothing: its changed-set is empty and every map is as loaded.
C5_SecondRunChangesNothing ==
  (NormLoopDone /\ run >= 2) => (changedFiles = <<>> /\ files = pre)

\* C9 as stated: a candidate base that is on disk but not loaded is ignored,
\* and no run of normalise ends in an error.
C9_UnloadedBaseIgnored == cmd = "normalise" => pc # "error"

\* The run of normalise on the maps fs in listing order.
RECURSIVE RunInOrder(_, _, _)
RunInOrder(fs, cf, i) ==
  IF i > Len(fs) THEN [ok |-> TRUE, files |-> fs, changedFiles |-> cf]
  ELSE LET r == NormaliseOne(fs, cf, fs[i][1])
       IN  IF r.throws THEN [ok |-> FALSE, files |-> fs, changedFiles |-> cf]
           ELSE RunInOrder(r.files, r.changedFiles, i + 1)

\* C10: in whatever order the documents had their turns, every document ends
\* with the map, and the changed-set with the members, that the run in
\* listing order gives.
C10_OrderIndependent ==
  NormLoopDone =>
    \E r \in {RunInOrder(pre, <<>>, 1)} :
      /\ r.ok
      /\ \A i \in 1..Len(files) : AsMap(files[i][2]) = AsMap(ObjGet(r.files, files[i][1]))
      /\ ToSet(changedFiles) = ToSet(r.changedFiles)

Index(q, x) == CHOOSE i \in 1..Len(q) : q[i] = x

\* C10 witness: a finished run that visited the base document core/fr-CA,
\* which lost "t", before acme/fr-CA, which lost "t" too; the listing has
\* them the other way round.
C10_Witness ==
  /\ NormLoopDone
  /\ DocPath(CoreWord, FrCA) \in KeySet(files)
  /\ DocPath(Acme, FrCA) \in KeySet(files)
  /\ Index(processed, DocPath(CoreWord, FrCA)) < Index(processed, DocPath(Acme, FrCA))
  /\ ObjHas(ObjGet(pre, DocPath(CoreWord, FrCA)), <<"t">>)
  /\ ~ObjHas(ObjGet(files, DocPath(CoreWord, FrCA)), <<"t">>)
  /\ ObjHas(ObjGet(pre, DocPath(Acme, FrCA)), <<"t">>)
  /\ ~ObjHas(ObjGet(files, DocPath(Acme, FrCA)), <<"t">>)

====
